---------------------------- MODULE Spec2Model ----------------------------
(***************************************************************************)
(* A model of src/arch/psvita/zip_support.cpp: the archive-handle          *)
(* lifecycle, the entry catalog, the extractor, the scratch-file writer,   *)
(* the ROM locator and the handle registry.                                *)
(*                                                                         *)
(* C strings are sequences of ASCII codes (no terminator); the terminator  *)
(* is what CharAt reads past the end.  A pointer to a string is <<s>>,     *)
(* the null pointer is << >>.  A handle pointer is an address in Addr,     *)
(* the null handle is 0.                                                   *)
(***************************************************************************)
EXTENDS Integers, Sequences, FiniteSets, TLC

(***************************************************************************)
(* Bounds of the model.                                                    *)
(***************************************************************************)
MaxHandles == 3
MaxCounter == 2
MaxSize == 2
MaxLive == 2
MaxEntries == 3
MaxOpen == 1
MaxThreads == 2

Addr == 1..MaxHandles
Threads == 1..MaxThreads
NULL == << >>
Ptr(s) == <<s>>

(***************************************************************************)
(* String primitives of the C library, as the code uses them.              *)
(***************************************************************************)
CharAt(s, i) == IF i <= Len(s) THEN s[i] ELSE 0

ToLower(c) == IF c >= 65 /\ c <= 90 THEN c + 32 ELSE c

RECURSIVE strcasecmp_from(_, _, _)
strcasecmp_from(s1, s2, i) ==
    IF CharAt(s1, i) # 0 /\ CharAt(s2, i) # 0
    THEN LET c1 == ToLower(CharAt(s1, i))
             c2 == ToLower(CharAt(s2, i))
         IN  IF c1 # c2 THEN c1 - c2 ELSE strcasecmp_from(s1, s2, i + 1)
    ELSE CharAt(s1, i) - CharAt(s2, i)

strcasecmp_custom(s1, s2) == strcasecmp_from(s1, s2, 1)

\* strrchr(s, c): a pointer to the suffix of s that starts at the last c,
\* or the null pointer.
LastIndexOf(s, c) ==
    IF \E i \in 1..Len(s) : s[i] = c
    THEN CHOOSE i \in 1..Len(s) : s[i] = c /\ \A j \in (i + 1)..Len(s) : s[j] # c
    ELSE 0

SuffixFrom(s, k) == IF k = 0 THEN NULL ELSE Ptr(SubSeq(s, k, Len(s)))

strrchr(s, c) == SuffixFrom(s, LastIndexOf(s, c))

RECURSIVE to_string(_)
to_string(n) ==
    IF n < 0 THEN <<45>> \o to_string(0 - n)
    ELSE IF n < 10 THEN <<48 + n>>
    ELSE to_string(n \div 10) \o <<48 + (n % 10)>>

TEMP_DIR == <<117, 120, 48, 58, 116, 101, 109, 112, 47, 118, 105, 99, 101,
              118, 105, 116, 97, 95, 122, 105, 112, 47>>

zip_get_temp_dir == TEMP_DIR

DotZip == <<46, 122, 105, 112>>

\* supported_exts of zip_is_supported_extension_internal, in its order:
\* .prg .p00 .t64 .tap .d64 .d71 .d81 .x64 .g64 .crt .bin .rom
supported_exts ==
    << <<46, 112, 114, 103>>, <<46, 112, 48, 48>>, <<46, 116, 54, 52>>,
       <<46, 116, 97, 112>>, <<46, 100, 54, 52>>, <<46, 100, 55, 49>>,
       <<46, 100, 56, 49>>, <<46, 120, 54, 52>>, <<46, 103, 54, 52>>,
       <<46, 99, 114, 116>>, <<46, 98, 105, 110>>, <<46, 114, 111, 109>> >>

(***************************************************************************)
(* Extension matcher.  The helpers that take the value of a call as a      *)
(* parameter are the code that follows that call.                          *)
(***************************************************************************)
\* The container test with the suffix comparison left out: any name with a
\* '.' passes.
ExtIsZip_AnySuffix(ext) == IF ext = NULL THEN 0 ELSE 1

ExtIsZip(ext) ==
    IF ext = NULL THEN 0
    ELSE IF strcasecmp_custom(ext[1], DotZip) = 0 THEN 1 ELSE 0

zip_is_archive(filename) ==
    IF filename = NULL THEN 0 ELSE ExtIsZip(strrchr(filename[1], 46))

\* The index of the first element of list that ext matches, 0 when none:
\* the for loop over a null-terminated extension array.
RECURSIVE FirstExtMatch(_, _, _)
FirstExtMatch(ext, list, i) ==
    IF i > Len(list) THEN 0
    ELSE IF strcasecmp_custom(ext, list[i]) = 0 THEN i
    ELSE FirstExtMatch(ext, list, i + 1)

ExtIsSupported(ext) ==
    IF ext = NULL THEN FALSE ELSE FirstExtMatch(ext[1], supported_exts, 1) # 0

zip_is_supported_extension_internal(filename) ==
    IF filename = NULL THEN FALSE ELSE ExtIsSupported(strrchr(filename[1], 46))

(***************************************************************************)
(* The storage the codec reads: the paths unzOpen can open, and the        *)
(* entries of each container in physical order.  info_ok says whether      *)
(* unzGetCurrentFileInfo succeeds on the entry while the catalog is built. *)
(***************************************************************************)
File(n, s, m) == [name |-> n, uncompressed_size |-> s, info_ok |-> m]

\* "a.zip": d/  d/g.crt  x.D64  g.crt
A_ZIP == <<97, 46, 122, 105, 112>>
\* "B.ZIP": r.txt (unreadable metadata)  x.D64  g.crt  x.D64
B_ZIP == <<66, 46, 90, 73, 80>>
\* "e.zip": a container with no entry
E_ZIP == <<101, 46, 122, 105, 112>>
\* "m.zip": no such file
M_ZIP == <<109, 46, 122, 105, 112>>
\* "r.txt": a well-formed container under a name that is no container name
R_TXT == <<114, 46, 116, 120, 116>>

N_DIR == <<100, 47>>
N_DGCRT == <<100, 47, 103, 46, 99, 114, 116>>
N_XD64 == <<120, 46, 68, 54, 52>>
N_GCRT == <<103, 46, 99, 114, 116>>
N_NONE == <<110>>

OnDisk == {A_ZIP, B_ZIP, E_ZIP, R_TXT}

Fixture ==
    [path \in OnDisk |->
        IF path = A_ZIP THEN << File(N_DIR, 0, TRUE), File(N_DGCRT, 2, TRUE),
                                File(N_XD64, 1, TRUE), File(N_GCRT, 1, TRUE) >>
        ELSE IF path = B_ZIP THEN << File(R_TXT, 1, FALSE), File(N_XD64, 1, TRUE),
                                     File(N_GCRT, 2, TRUE), File(N_XD64, 2, TRUE) >>
        ELSE IF path = R_TXT THEN << File(N_GCRT, 1, TRUE) >>
        ELSE << >>]

(***************************************************************************)
(* Program state.                                                          *)
(*   disk            the containers in storage, by path                    *)
(*   heap            the ZipArchiveHandle objects, by address              *)
(*   g_open_archives the registry, a vector of handle addresses            *)
(*   sessions        the codec's open sessions (unzFile), by id: the path  *)
(*                   each one reads, NULL when the id is not open          *)
(*   temp_counter    the static counter of the scratch-file writer         *)
(*   scratch         the paths of the files created in the scratch dir     *)
(*   produced        the paths returned by the successful scratch writes   *)
(*   issued          the handle values open has returned so far            *)
(*   last            the last call: its arguments and what it returned     *)
(*   calls           per thread, the extract-to-scratch call it is in: its *)
(*                   position, its locals and the register of its          *)
(*                   increment                                             *)
(***************************************************************************)
VARIABLES disk, heap, g_open_archives, sessions, temp_counter, scratch,
          produced, issued, last, calls

vars == <<disk, heap, g_open_archives, sessions, temp_counter, scratch,
          produced, issued, last, calls>>

\* A thread that is in no call.
Idle == [pc |-> "idle", filename |-> << >>, size |-> 0, reg |-> 0,
         temp_path |-> << >>]

ZipEntry(n, s, d) == [filename |-> n, uncompressed_size |-> s, is_directory |-> d]

ZipArchiveHandle(uf, path, open, es) ==
    [alloc |-> TRUE, handle |-> uf, archive_path |-> path, is_open |-> open,
     entries |-> es]

\* Released memory: what it holds is not defined.
Freed == [alloc |-> FALSE, handle |-> 0, archive_path |-> << >>,
          is_open |-> FALSE, entries |-> << >>]

Prog == [disk |-> disk, heap |-> heap, reg |-> g_open_archives, sess |-> sessions,
         ctr |-> temp_counter, scratch |-> scratch, produced |-> produced,
         issued |-> issued]

Commit(P) ==
    /\ disk' = P.disk
    /\ heap' = P.heap
    /\ g_open_archives' = P.reg
    /\ sessions' = P.sess
    /\ temp_counter' = P.ctr
    /\ scratch' = P.scratch
    /\ produced' = P.produced
    /\ issued' = P.issued
    /\ UNCHANGED calls

FreeAddrs(P) == {a \in Addr : ~P.heap[a].alloc}
OpenHandles(P) == {a \in Addr : P.heap[a].alloc /\ P.heap[a].is_open}
LiveSessions(P) == {s \in DOMAIN P.sess : P.sess[s] # NULL}

Min(S) == CHOOSE x \in S : \A y \in S : x <= y

(***************************************************************************)
(* The codec (minizip), as far as the code depends on it.                  *)
(***************************************************************************)
\* unzOpen: a new session on the file, 0 when it cannot be opened.
unzOpen(P, path) ==
    IF path \in DOMAIN P.disk /\ (DOMAIN P.sess) \ LiveSessions(P) # {}
    THEN Min((DOMAIN P.sess) \ LiveSessions(P))
    ELSE 0

unzClose(P, uf) == [P EXCEPT !.sess[uf] = NULL]

\* unzLocateFile: the index of the first entry of that exact name, 0 when
\* there is none.
unzLocateFile(files, filename) ==
    IF \E i \in 1..Len(files) : files[i].name = filename
    THEN Min({i \in 1..Len(files) : files[i].name = filename})
    ELSE 0

\* unzReadCurrentFile and sceIoWrite: an error code, or the number of
\* bytes moved, which is never more than the len asked for.
IoCount(len, answer) ==
    IF answer < 0 THEN answer ELSE IF answer > len THEN len ELSE answer

(***************************************************************************)
(* Entry catalog.  oob is what the comparison filename[strlen - 1] == '/'  *)
(* yields for an empty name, where it reads before the buffer.             *)
(***************************************************************************)
IsDirName(filename, oob) ==
    IF Len(filename) = 0 THEN oob ELSE filename[Len(filename)] = 47

\* One pass of the do-while body: the entry is pushed unless its metadata
\* cannot be read.
ListOne(f, oob, acc) ==
    IF f.info_ok
    THEN Append(acc, ZipEntry(f.name, f.uncompressed_size, IsDirName(f.name, oob)))
    ELSE acc

\* The listing that stops at the first entry whose metadata cannot be read.
RECURSIVE ListFrom_AbortOnFailure(_, _, _, _)
ListFrom_AbortOnFailure(files, i, oob, acc) ==
    IF ~files[i].info_ok THEN acc
    ELSE IF i < Len(files)
    THEN ListFrom_AbortOnFailure(files, i + 1, oob, ListOne(files[i], oob, acc))
    ELSE ListOne(files[i], oob, acc)

RECURSIVE ListFrom(_, _, _, _)
ListFrom(files, i, oob, acc) ==
    IF i < Len(files)
    THEN ListFrom(files, i + 1, oob, ListOne(files[i], oob, acc))
    ELSE ListOne(files[i], oob, acc)

zip_list_contents_internal(archive, files, oob) ==
    IF ~archive.alloc \/ ~archive.is_open
    THEN [ok |-> FALSE, entries |-> archive.entries]
    ELSE IF Len(files) = 0 THEN [ok |-> FALSE, entries |-> << >>]
    ELSE [ok |-> TRUE, entries |-> ListFrom(files, 1, oob, << >>)]

(***************************************************************************)
(* Archive handle: open and close.                                         *)
(***************************************************************************)
\* The handle once zip_open_archive has filled it and listed its entries.
NewArchive(P, uf, path, oob) ==
    ZipArchiveHandle(uf, path, TRUE,
        zip_list_contents_internal(ZipArchiveHandle(uf, path, TRUE, << >>),
                                   P.disk[path], oob).entries)

\* zip_open_archive after unzOpen has returned uf; a is the address that
\* new returns.
OpenWith(P, path, oob, uf, a) ==
    IF uf = 0 THEN [P |-> P, ret |-> 0, asked |-> TRUE]
    ELSE [P |-> [P EXCEPT !.heap[a] = NewArchive(P, uf, path, oob),
                          !.sess[uf] = Ptr(path),
                          !.reg = Append(P.reg, a),
                          !.issued = P.issued \cup {a}],
          ret |-> a, asked |-> TRUE]

zip_open_archive(P, archive_path, oob) ==
    IF archive_path = NULL \/ zip_is_archive(archive_path) = 0
    THEN [P |-> P, ret |-> 0, asked |-> FALSE]
    ELSE OpenWith(P, archive_path[1], oob, unzOpen(P, archive_path[1]),
                  IF FreeAddrs(P) = {} THEN 0 ELSE Min(FreeAddrs(P)))

\* std::find and erase: the first occurrence only.
EraseAt(v, k) ==
    IF k = 0 THEN v ELSE SubSeq(v, 1, k - 1) \o SubSeq(v, k + 1, Len(v))

EraseFirst(v, x) ==
    EraseAt(v, IF \E i \in 1..Len(v) : v[i] = x
               THEN Min({i \in 1..Len(v) : v[i] = x}) ELSE 0)

\* garb: what archive->is_open yields when archive points to released
\* memory.  uaf: the call read released memory; dfree: it released memory
\* that was released already.
zip_close_archive(P, archive, garb) ==
    IF archive = 0 THEN [P |-> P, uaf |-> FALSE, dfree |-> FALSE]
    ELSE IF P.heap[archive].alloc
    THEN IF ~P.heap[archive].is_open
         THEN [P |-> P, uaf |-> FALSE, dfree |-> FALSE]
         ELSE [P |-> [P EXCEPT
                        !.sess = IF P.heap[archive].handle # 0
                                 THEN unzClose(P, P.heap[archive].handle).sess
                                 ELSE P.sess,
                        !.reg = EraseFirst(P.reg, archive),
                        !.heap[archive] = Freed],
               uaf |-> FALSE, dfree |-> FALSE]
    ELSE IF ~garb THEN [P |-> P, uaf |-> TRUE, dfree |-> FALSE]
    ELSE [P |-> [P EXCEPT !.reg = EraseFirst(P.reg, archive)],
          uaf |-> TRUE, dfree |-> TRUE]

(***************************************************************************)
(* Extractor.  The outputs *data and *size are "unset" and -1 while the    *)
(* call has not written them.  o holds what the environment decides:       *)
(*   o.garb     archive->is_open read from released memory                 *)
(*   o.loc      unzLocateFile's answer on a session read from released     *)
(*              memory, and o.dsize the size it then declares              *)
(*   o.info     unzGetCurrentFileInfo succeeds                             *)
(*   o.opencur  unzOpenCurrentFile succeeds                                *)
(*   o.rd       what unzReadCurrentFile returns                            *)
(***************************************************************************)
ExtractOut(ok, data, size, uaf, declared, rd) ==
    [ok |-> ok, data |-> data, size |-> size, uaf |-> uaf,
     declared |-> declared, bytes_read |-> rd]

\* The end of the extraction with the comparison of bytes_read left out:
\* the buffer is returned however many bytes were read.
ExtractCheck_KeepPartial(declared, bytes_read, uaf) ==
    ExtractOut(TRUE, "alloc", declared, uaf, declared, bytes_read)

\* The end of zip_extract_file_internal: the buffer is kept only when the
\* codec read as many bytes as the entry declares.
ExtractCheck(declared, bytes_read, uaf) ==
    IF bytes_read # declared
    THEN ExtractOut(FALSE, "null", 0, uaf, declared, bytes_read)
    ELSE ExtractOut(TRUE, "alloc", declared, uaf, declared, bytes_read)

ExtractRead(declared, o, uaf) ==
    IF ~o.info THEN ExtractOut(FALSE, "null", 0, uaf, -1, -1)
    ELSE IF ~o.opencur THEN ExtractOut(FALSE, "null", 0, uaf, declared, -1)
    ELSE ExtractCheck(declared, IoCount(declared, o.rd), uaf)

\* The extraction with the result of unzLocateFile ignored: it reads the
\* entry the codec's cursor is on, the first one.
ExtractLocated_Unchecked(files, k, o) ==
    ExtractRead(IF k # 0 THEN files[k].uncompressed_size
                ELSE IF Len(files) > 0 THEN files[1].uncompressed_size ELSE 0,
                o, FALSE)

\* zip_extract_file_internal after unzLocateFile has returned entry k.
ExtractLocated(files, k, o) ==
    IF k = 0 THEN ExtractOut(FALSE, "null", 0, FALSE, -1, -1)
    ELSE ExtractRead(files[k].uncompressed_size, o, FALSE)

FilesOf(P, archive) == P.disk[P.sess[P.heap[archive].handle][1]]

zip_extract_file_internal(P, archive, filename, o) ==
    IF archive = 0 THEN ExtractOut(FALSE, "unset", -1, FALSE, -1, -1)
    ELSE IF ~P.heap[archive].alloc
    THEN IF ~o.garb \/ filename = NULL
         THEN ExtractOut(FALSE, "unset", -1, TRUE, -1, -1)
         ELSE IF ~o.loc THEN ExtractOut(FALSE, "null", 0, TRUE, -1, -1)
         ELSE ExtractRead(o.dsize, o, TRUE)
    ELSE IF ~P.heap[archive].is_open \/ filename = NULL
    THEN ExtractOut(FALSE, "unset", -1, FALSE, -1, -1)
    ELSE ExtractLocated(FilesOf(P, archive),
                        unzLocateFile(FilesOf(P, archive), filename[1]), o)

BoolToInt(r) == [r EXCEPT !.ok = IF r.ok THEN 1 ELSE 0]

zip_extract_file(P, archive, filename, o) ==
    BoolToInt(zip_extract_file_internal(P, archive, filename, o))

(***************************************************************************)
(* Scratch-file writer.  o.fd_ok: sceIoOpen succeeds; o.wr: what           *)
(* sceIoWrite returns.  released counts the delete[] of the buffer.        *)
(***************************************************************************)
AfterSlash(filename, slash) ==
    IF slash # NULL THEN SubSeq(slash[1], 2, Len(slash[1])) ELSE filename

BaseFilename(filename) == AfterSlash(filename, strrchr(filename, 47))

\* The destination path without the counter.
TempPath_NoCounter(counter, base_filename) ==
    zip_get_temp_dir \o <<116, 101, 109, 112, 95>> \o <<95>> \o base_filename

TempPath(counter, base_filename) ==
    zip_get_temp_dir \o <<116, 101, 109, 112, 95>> \o to_string(counter)
        \o <<95>> \o base_filename

ScratchOut(P, ok, temp_path, x, written, released, overwrote) ==
    [P |-> P, ok |-> ok, temp_path |-> temp_path, uaf |-> x.uaf,
     extracted |-> x.ok, size |-> x.size, written |-> written,
     released |-> released, overwrote |-> overwrote]

\* The file is created and truncated, the buffer written and released.
ScratchWrite(P, x, temp_path, bytes_written) ==
    ScratchOut([P EXCEPT !.scratch = P.scratch \cup {temp_path},
                         !.produced = IF bytes_written = x.size
                                      THEN Append(P.produced, temp_path)
                                      ELSE P.produced],
               bytes_written = x.size, temp_path, x, bytes_written, 1,
               temp_path \in P.scratch)

\* The writer that returns on a failed sceIoOpen without delete[] data.
ScratchOpen_LeakOnOpenFailure(P, x, temp_path, o) ==
    IF ~o.fd_ok THEN ScratchOut(P, FALSE, temp_path, x, -1, 0, FALSE)
    ELSE ScratchWrite(P, x, temp_path, IoCount(x.size, o.wr))

\* zip_extract_file_to_temp_internal once temp_counter is incremented
\* and temp_path composed.
ScratchOpen(P, x, temp_path, o) ==
    IF ~o.fd_ok THEN ScratchOut(P, FALSE, temp_path, x, -1, 1, FALSE)
    ELSE ScratchWrite(P, x, temp_path, IoCount(x.size, o.wr))

\* The writer with the increment moved before the test of the extraction:
\* a call whose extraction failed consumes a counter value too.
ScratchExtracted_CountFailures(P, filename, x, o) ==
    IF ~x.ok
    THEN ScratchOut([P EXCEPT !.ctr = P.ctr + 1], FALSE, << >>, x, -1, 0, FALSE)
    ELSE ScratchOpen([P EXCEPT !.ctr = P.ctr + 1], x,
                     TempPath(P.ctr + 1, BaseFilename(filename[1])), o)

\* zip_extract_file_to_temp_internal after zip_extract_file_internal has
\* returned x.
ScratchExtracted(P, filename, x, o) ==
    IF ~x.ok THEN ScratchOut(P, FALSE, << >>, x, -1, 0, FALSE)
    ELSE ScratchOpen([P EXCEPT !.ctr = P.ctr + 1], x,
                     TempPath(P.ctr + 1, BaseFilename(filename[1])), o)

\* The writer that lists the handle's entries again before it extracts,
\* from the entry the codec has located instead of from the first one.
RelistFrom(P, archive, k) ==
    IF k = 0 THEN P
    ELSE [P EXCEPT !.heap[archive].entries =
                       ListFrom(FilesOf(P, archive), k, FALSE, << >>)]

zip_extract_file_to_temp_internal_Relist(P, archive, filename, o) ==
    ScratchExtracted(
        IF archive # 0 /\ P.heap[archive].alloc /\ P.heap[archive].is_open
                       /\ filename # NULL
        THEN RelistFrom(P, archive,
                        unzLocateFile(FilesOf(P, archive), filename[1]))
        ELSE P,
        filename, zip_extract_file_internal(P, archive, filename, o), o)

zip_extract_file_to_temp_internal(P, archive, filename, o) ==
    ScratchExtracted(P, filename,
                     zip_extract_file_internal(P, archive, filename, o), o)

\* The wrapper's test with <= for <: a path as long as the buffer passes.
CopyOut_OffByOne(r, buffer_size) ==
    IF r.ok /\ Len(r.temp_path) <= buffer_size
    THEN [r EXCEPT !.ok = 1] @@ [out |-> Ptr(r.temp_path)]
    ELSE [r EXCEPT !.ok = 0] @@ [out |-> NULL]

\* The C wrappers: out is what the caller's buffer holds afterwards, NULL
\* when the wrapper did not write it.
CopyOut(r, buffer_size) ==
    IF r.ok /\ Len(r.temp_path) < buffer_size
    THEN [r EXCEPT !.ok = 1] @@ [out |-> Ptr(r.temp_path)]
    ELSE [r EXCEPT !.ok = 0] @@ [out |-> NULL]

zip_extract_file_to_temp_c(P, archive, filename, buffer_size, o) ==
    CopyOut(zip_extract_file_to_temp_internal(P, archive, filename, o),
            buffer_size)

(***************************************************************************)
(* Lookup in the catalog.                                                  *)
(***************************************************************************)
zip_file_exists_internal(P, archive, filename, o) ==
    IF archive = 0 THEN [ok |-> FALSE, uaf |-> FALSE]
    ELSE IF ~P.heap[archive].alloc
    THEN [ok |-> o.garb /\ filename # NULL /\ o.loc, uaf |-> TRUE]
    ELSE IF ~P.heap[archive].is_open \/ filename = NULL
    THEN [ok |-> FALSE, uaf |-> FALSE]
    ELSE [ok |-> \E i \in 1..Len(P.heap[archive].entries) :
                    /\ P.heap[archive].entries[i].filename = filename[1]
                    /\ ~P.heap[archive].entries[i].is_directory,
          uaf |-> FALSE]

zip_file_exists(P, archive, filename, o) ==
    BoolToInt(zip_file_exists_internal(P, archive, filename, o))

(***************************************************************************)
(* ROM locator.  supported_extensions is a pointer to a list of            *)
(* extensions, NULL for the default list.                                  *)
(***************************************************************************)
ExtMatches(entry, ext, supported_extensions) ==
    IF ext = NULL THEN FALSE
    ELSE IF supported_extensions # NULL
    THEN FirstExtMatch(ext[1], supported_extensions[1], 1) # 0
    ELSE zip_is_supported_extension_internal(Ptr(entry.filename))

\* The test of one entry without the skip of directories.
EntryMatches_KeepDirectories(entry, supported_extensions) ==
    ExtMatches(entry, strrchr(entry.filename, 46), supported_extensions)

EntryMatches(entry, supported_extensions) ==
    IF entry.is_directory THEN FALSE
    ELSE ExtMatches(entry, strrchr(entry.filename, 46), supported_extensions)

\* The scan that keeps the last matching entry instead of returning at the
\* first one.
FindFrom_LastMatch(entries, i, supported_extensions) ==
    IF \E j \in i..Len(entries) : EntryMatches(entries[j], supported_extensions)
    THEN CHOOSE j \in i..Len(entries) :
             /\ EntryMatches(entries[j], supported_extensions)
             /\ \A k \in (j + 1)..Len(entries) :
                    ~EntryMatches(entries[k], supported_extensions)
    ELSE 0

RECURSIVE FindFrom(_, _, _)
FindFrom(entries, i, supported_extensions) ==
    IF i > Len(entries) THEN 0
    ELSE IF EntryMatches(entries[i], supported_extensions) THEN i
    ELSE FindFrom(entries, i + 1, supported_extensions)

FoundAt(entries, k) ==
    IF k = 0 THEN [ok |-> FALSE, rom_filename |-> << >>, uaf |-> FALSE]
    ELSE [ok |-> TRUE, rom_filename |-> entries[k].filename, uaf |-> FALSE]

zip_find_rom_in_archive(P, archive, supported_extensions, o) ==
    IF archive = 0 THEN [ok |-> FALSE, rom_filename |-> << >>, uaf |-> FALSE]
    ELSE IF ~P.heap[archive].alloc
    THEN [ok |-> o.garb /\ o.loc, rom_filename |-> << >>, uaf |-> TRUE]
    ELSE IF ~P.heap[archive].is_open
    THEN [ok |-> FALSE, rom_filename |-> << >>, uaf |-> FALSE]
    ELSE FoundAt(P.heap[archive].entries,
                 FindFrom(P.heap[archive].entries, 1, supported_extensions))

(***************************************************************************)
(* Find and extract.  stage: how far the call got ("open", "find",         *)
(* "extract", "done").                                                     *)
(***************************************************************************)
RomOut(P, ok, temp_path, stage, archive) ==
    [P |-> P, ok |-> ok, temp_path |-> temp_path, stage |-> stage,
     handle |-> archive]

\* After zip_extract_file_to_temp_internal has returned w: close, return.
RomExtracted(archive, w, o) ==
    RomOut(zip_close_archive(w.P, archive, o.garb).P, w.ok, w.temp_path,
           IF w.ok THEN "done" ELSE "extract", archive)

\* The composition with the close on the not-found path left out.
RomFound_LeakOnFailure(P, archive, found, o) ==
    IF ~found.ok THEN RomOut(P, FALSE, << >>, "find", archive)
    ELSE RomExtracted(archive,
             zip_extract_file_to_temp_internal(P, archive,
                                               Ptr(found.rom_filename), o), o)

\* After zip_find_rom_in_archive has returned found.
RomFound(P, archive, found, o) ==
    IF ~found.ok
    THEN RomOut(zip_close_archive(P, archive, o.garb).P, FALSE, << >>,
                "find", archive)
    ELSE RomExtracted(archive,
             zip_extract_file_to_temp_internal(P, archive,
                                               Ptr(found.rom_filename), o), o)

\* After zip_open_archive has returned opened.
RomOpened(P, opened, supported_extensions, o) ==
    IF opened.ret = 0 THEN RomOut(P, FALSE, << >>, "open", 0)
    ELSE RomFound(opened.P, opened.ret,
                  zip_find_rom_in_archive(opened.P, opened.ret,
                                          supported_extensions, o), o)

zip_extract_rom_to_temp(P, zip_path, supported_extensions, o) ==
    RomOpened(P, zip_open_archive(P, zip_path, o.oob), supported_extensions, o)

zip_extract_rom_to_temp_c(P, zip_path, supported_extensions, buffer_size, o) ==
    CopyOut(zip_extract_rom_to_temp(P, zip_path, supported_extensions, o),
            buffer_size)

(***************************************************************************)
(* Bulk cleanup.  The range-for walks the vector's storage from its first  *)
(* slot to the end it had when the loop began, while zip_close_archive     *)
(* erases from the same vector: erase moves the later elements one slot    *)
(* down and leaves the slots past the new end as they were.  arr is that   *)
(* storage, n the number of slots walked; garb is the set of slots at      *)
(* which archive->is_open, read from released memory, yields true.         *)
(***************************************************************************)
\* The body of the loop on the handle in slot i.
CleanupVisit(P, archive, readsOpen) ==
    IF P.heap[archive].alloc
    THEN IF P.heap[archive].is_open
         THEN zip_close_archive(P, archive, FALSE)
         ELSE [P |-> P, uaf |-> FALSE, dfree |-> FALSE]
    ELSE IF readsOpen THEN zip_close_archive(P, archive, TRUE)
         ELSE [P |-> P, uaf |-> TRUE, dfree |-> FALSE]

RECURSIVE CleanupLoop(_, _, _, _, _, _)

\* The storage after the visit c of one slot, and the rest of the loop.
CleanupNext(c, arr, i, n, garb, flags) ==
    CleanupLoop(c.P, c.P.reg \o SubSeq(arr, Len(c.P.reg) + 1, n), i + 1, n,
                garb, [uaf |-> flags.uaf \/ c.uaf,
                       dfree |-> flags.dfree \/ c.dfree])

CleanupLoop(P, arr, i, n, garb, flags) ==
    IF i > n THEN [P |-> P, uaf |-> flags.uaf, dfree |-> flags.dfree]
    ELSE CleanupNext(CleanupVisit(P, arr[i], i \in garb), arr, i, n, garb, flags)

ClearRegistry(r) == [r EXCEPT !.P.reg = << >>]

zip_cleanup_temp_files(P, garb) ==
    ClearRegistry(CleanupLoop(P, P.reg, 1, Len(P.reg), garb,
                              [uaf |-> FALSE, dfree |-> FALSE]))

(***************************************************************************)
(* The calls a client makes, and what the environment may answer.          *)
(***************************************************************************)
\* Paths open refuses before it asks the codec: NULL, "", "zip", "r.txt",
\* "a.zi", "a.zipp", "a.zip/n".
NonContainerPaths ==
    {NULL, Ptr(<< >>), Ptr(<<122, 105, 112>>), Ptr(R_TXT),
     Ptr(<<97, 46, 122, 105>>), Ptr(<<97, 46, 122, 105, 112, 112>>),
     Ptr(<<97, 46, 122, 105, 112, 47, 110>>)}

Paths == NonContainerPaths \cup {Ptr(A_ZIP), Ptr(B_ZIP), Ptr(E_ZIP), Ptr(M_ZIP)}

Names == {NULL, Ptr(N_DIR), Ptr(N_DGCRT), Ptr(N_XD64), Ptr(N_GCRT), Ptr(N_NONE)}

\* NULL (the default list), {".crt", ".d64"}, {".D64", ".CRT"}, {".txt"}, {}
ExtLists == {NULL,
             Ptr(<< <<46, 99, 114, 116>>, <<46, 100, 54, 52>> >>),
             Ptr(<< <<46, 68, 54, 52>>, <<46, 67, 82, 84>> >>),
             Ptr(<< <<46, 116, 120, 116>> >>),
             Ptr(<< >>)}

\* The capacities of the caller's path buffer: one too small for a path of
\* 34 characters and its terminator, one that holds it.
BufferSizes == {34, 35}

HandleArgs == {0} \cup issued

Sizes == 0..MaxSize
IoResults == {-1} \cup Sizes

\* What reads of released memory yield; nothing is read from released
\* memory when the handle is null or allocated.
Garbage(garb, loc, dsize) == [garb |-> garb, loc |-> loc, dsize |-> dsize]

GarbageOf(archive) ==
    IF archive # 0 /\ ~heap[archive].alloc
    THEN {Garbage(FALSE, FALSE, 0), Garbage(TRUE, FALSE, 0)}
             \cup {Garbage(TRUE, TRUE, d) : d \in Sizes}
    ELSE {Garbage(FALSE, FALSE, 0)}

\* What the first byte before an empty name compares to: asked for only
\* when the container holds an entry with an empty name.
OobOf(path) ==
    IF /\ path # NULL
       /\ path[1] \in DOMAIN disk
       /\ \E i \in 1..Len(disk[path[1]]) : disk[path[1]][i].name = << >>
    THEN BOOLEAN ELSE {FALSE}

\* The answers of the codec and of the file system to one extraction, one
\* record per way it can go: the steps after a failed one are not asked.
Answer(info, opencur, rd, fd_ok, wr) ==
    [info |-> info, opencur |-> opencur, rd |-> rd, fd_ok |-> fd_ok, wr |-> wr]

CodecAnswers ==
    {Answer(FALSE, FALSE, -1, FALSE, -1), Answer(TRUE, FALSE, -1, FALSE, -1)}
        \cup {Answer(TRUE, TRUE, rd, FALSE, -1) : rd \in IoResults}

ScratchAnswers ==
    CodecAnswers \cup {Answer(TRUE, TRUE, MaxSize, TRUE, wr) : wr \in IoResults}

NoAnswer == Answer(FALSE, FALSE, -1, FALSE, -1)

\* Nothing is asked of the codec on a handle that is null, or that is
\* released and read as closed.
CodecAnswersOf(archive, g) ==
    IF archive = 0 \/ (~heap[archive].alloc /\ ~(g.garb /\ g.loc))
    THEN {NoAnswer} ELSE CodecAnswers

ScratchAnswersOf(archive, g) ==
    IF archive = 0 \/ (~heap[archive].alloc /\ ~(g.garb /\ g.loc))
    THEN {NoAnswer} ELSE ScratchAnswers

RomAnswersOf(zip_path) ==
    IF zip_is_archive(zip_path) = 1 /\ zip_path[1] \in DOMAIN disk
    THEN ScratchAnswers ELSE {NoAnswer}

Init ==
    /\ disk = Fixture
    /\ heap = [a \in Addr |-> Freed]
    /\ g_open_archives = << >>
    /\ sessions = [s \in Addr |-> NULL]
    /\ temp_counter = 0
    /\ scratch = {}
    /\ produced = << >>
    /\ issued = {}
    /\ last = [op |-> "init"]
    /\ calls = [t \in Threads |-> Idle]

\* Each action takes the result r of the call it models and commits the
\* program state the call leaves behind.
OpenArchive(paths, live) ==
    \E path \in paths :
        \E oob \in OobOf(path) :
            /\ Cardinality(Addr \ FreeAddrs(Prog)) < live
            /\ \E r \in {zip_open_archive(Prog, path, oob)} :
                   /\ Commit(r.P)
                   /\ last' = [op |-> "open", path |-> path, ret |-> r.ret,
                               asked |-> r.asked]

CloseArchive ==
    \E archive \in HandleArgs :
        \E g \in GarbageOf(archive) :
            \E r \in {zip_close_archive(Prog, archive, g.garb)} :
                /\ Commit(r.P)
                /\ last' = [op |-> "close", h |-> archive, uaf |-> r.uaf,
                            dfree |-> r.dfree]

CleanupTempFiles ==
    \E garb \in SUBSET (1..Len(g_open_archives)) :
        \E r \in {zip_cleanup_temp_files(Prog, garb)} :
            /\ Commit(r.P)
            /\ last' = [op |-> "closeAll", uaf |-> r.uaf, dfree |-> r.dfree,
                        tracked |-> Len(g_open_archives)]

FileExists(names) ==
    \E archive \in HandleArgs, filename \in names :
        \E g \in GarbageOf(archive) :
            \E r \in {zip_file_exists(Prog, archive, filename, g)} :
                /\ UNCHANGED <<disk, heap, g_open_archives, sessions,
                               temp_counter, scratch, produced, issued, calls>>
                /\ last' = [op |-> "exists", h |-> archive, name |-> filename,
                            ok |-> r.ok, uaf |-> r.uaf]

ExtractFile(names) ==
    \E archive \in HandleArgs, filename \in names :
        \E g \in GarbageOf(archive) : \E c \in CodecAnswersOf(archive, g) :
            \E r \in {zip_extract_file(Prog, archive, filename, g @@ c)} :
                /\ UNCHANGED <<disk, heap, g_open_archives, sessions,
                               temp_counter, scratch, produced, issued, calls>>
                /\ last' = [op |-> "extract", h |-> archive, name |-> filename,
                            ok |-> r.ok, data |-> r.data, size |-> r.size,
                            uaf |-> r.uaf, declared |-> r.declared,
                            bytes_read |-> r.bytes_read]

FindRom(lists) ==
    \E archive \in HandleArgs, exts \in lists :
        \E g \in GarbageOf(archive) :
            \E r \in {zip_find_rom_in_archive(Prog, archive, exts, g)} :
                /\ UNCHANGED <<disk, heap, g_open_archives, sessions,
                               temp_counter, scratch, produced, issued, calls>>
                /\ last' = [op |-> "find", h |-> archive, exts |-> exts,
                            ok |-> r.ok, rom_filename |-> r.rom_filename,
                            uaf |-> r.uaf]

ExtractFileToTemp(names, capacities) ==
    \E archive \in HandleArgs, filename \in names, buffer_size \in capacities :
        \E g \in GarbageOf(archive) : \E c \in ScratchAnswersOf(archive, g) :
            /\ temp_counter < MaxCounter
            /\ \E r \in {zip_extract_file_to_temp_c(Prog, archive, filename,
                                                    buffer_size, g @@ c)} :
                   /\ Commit(r.P)
                   /\ last' = [op |-> "scratch", h |-> archive,
                               name |-> filename, cap |-> buffer_size,
                               ok |-> r.ok, out |-> r.out,
                               temp_path |-> r.temp_path, uaf |-> r.uaf,
                               extracted |-> r.extracted, size |-> r.size,
                               written |-> r.written, released |-> r.released,
                               overwrote |-> r.overwrote]

ExtractRomToTemp(paths, lists, capacities) ==
    \E zip_path \in paths, exts \in lists, buffer_size \in capacities :
        \E oob \in OobOf(zip_path), c \in RomAnswersOf(zip_path) :
            /\ temp_counter < MaxCounter
            /\ FreeAddrs(Prog) # {}
            /\ \E r \in {zip_extract_rom_to_temp_c(Prog, zip_path, exts,
                             buffer_size,
                             Garbage(FALSE, FALSE, 0) @@ [oob |-> oob] @@ c)} :
                   /\ Commit(r.P)
                   /\ last' = [op |-> "rom", cap |-> buffer_size, ok |-> r.ok,
                               out |-> r.out, stage |-> r.stage,
                               handle |-> r.handle]

(***************************************************************************)
(* The lifecycle of the handles and of the registry: open, close, the      *)
(* lookups and extractions a client may still try on a handle, the         *)
(* composed find-and-extract, and the bulk cleanup.                        *)
(***************************************************************************)
LifePaths == {NULL, Ptr(R_TXT), Ptr(A_ZIP), Ptr(M_ZIP)}
LifeNames == {Ptr(N_DGCRT), Ptr(N_NONE)}
RomPaths == {Ptr(A_ZIP), Ptr(E_ZIP), Ptr(M_ZIP)}
RomLists == {NULL}

Next ==
    \/ OpenArchive(LifePaths, MaxHandles)
    \/ CloseArchive
    \/ CleanupTempFiles
    \/ FileExists(LifeNames)
    \/ ExtractFile(LifeNames)
    \/ ExtractRomToTemp(RomPaths, RomLists, {35})

Spec == Init /\ [][Next]_vars

(***************************************************************************)
(* The claims about the lifecycle, under Spec.                             *)
(***************************************************************************)
Tracked == {g_open_archives[i] : i \in 1..Len(g_open_archives)}

\* A handle value that open has returned and close has released since.
IsReleased(h) == h \in issued /\ ~heap[h].alloc

\* C1: when closeAll returns, every handle that was open has been closed:
\* no handle is left open, no codec session is left open, the registry is
\* empty, and nothing was released twice.
C1_CloseAllClosesEveryHandle ==
    last.op = "closeAll" =>
        /\ OpenHandles(Prog) = {}
        /\ LiveSessions(Prog) = {}
        /\ g_open_archives = << >>
        /\ ~last.dfree

\* C2: exists and extractToBuffer on a handle that close has released fail
\* (return 0, no buffer) without reading the released handle.
C2_ClosedHandleFailsCleanly ==
    (last.op \in {"exists", "extract"} /\ IsReleased(last.h)) =>
        /\ last.ok = 0
        /\ ~last.uaf
        /\ (last.op = "extract" => last.data # "alloc")

\* C3: close on a null handle or on a handle that is already closed is a
\* no-op: the registry, the handles and the codec sessions stay as they
\* were, and nothing is read from or released in released memory.
C3_CloseIsIdempotent ==
    [][\A h \in {0} \cup issued :
          (/\ h = 0 \/ IsReleased(h)
           /\ last'.op = "close"
           /\ last'.h = h)
          => /\ UNCHANGED <<heap, g_open_archives, sessions>>
             /\ ~last'.uaf
             /\ ~last'.dfree]_vars

\* C4: in every reachable state a handle is in the registry iff it is open,
\* and it is there once.
C4_RegistryTracksLiveHandles ==
    /\ Tracked = OpenHandles(Prog)
    /\ Cardinality(Tracked) = Len(g_open_archives)

(***************************************************************************)
(* Find-and-extract among handles a client holds open: every way the       *)
(* composed call can end, with up to MaxLive handles alive.                *)
(***************************************************************************)
\* ".txt": a wanted list no entry of "a.zip" matches.
TxtList == Ptr(<< <<46, 116, 120, 116>> >>)

NextRom ==
    \/ OpenArchive({Ptr(A_ZIP)}, MaxLive)
    \/ CloseArchive
    \/ ExtractRomToTemp({NULL, Ptr(R_TXT), Ptr(M_ZIP), Ptr(E_ZIP), Ptr(A_ZIP)},
                        {NULL, TxtList}, BufferSizes)

SpecRom == Init /\ [][NextRom]_vars

\* C5: findAndExtractToScratch leaves the registry, the set of open handles
\* and the codec's open sessions exactly as they were before the call,
\* whether it failed at open, at findMedia, at the extraction or at the
\* scratch write, or succeeded.
C5_FindAndExtractClosesItsHandle ==
    [][last'.op = "rom" =>
          /\ g_open_archives' = g_open_archives
          /\ OpenHandles(Prog)' = OpenHandles(Prog)
          /\ LiveSessions(Prog)' = LiveSessions(Prog)]_vars

\* The call found no media in a container it had opened, while the client
\* held another handle open.
C5_Witness ==
    /\ last.op = "rom"
    /\ last.stage = "find"
    /\ last.handle # 0
    /\ g_open_archives # << >>

(***************************************************************************)
(* Open and extract-to-buffer: every path a client may pass to open, every *)
(* name it may ask for, every answer of the codec.                         *)
(***************************************************************************)
NextExtract ==
    \/ OpenArchive(Paths, MaxLive)
    \/ CloseArchive
    \/ ExtractFile(Names)

SpecExtract == Init /\ [][NextExtract]_vars

\* The container a handle reads, and the entries of that name in it.
ContainerOf(h) == disk[heap[h].archive_path]

InContainer(h, name) ==
    \E i \in 1..Len(ContainerOf(h)) : ContainerOf(h)[i].name = name

\* The size the container declares for the first entry of that name.
DeclaresSize(h, name, size) ==
    \E i \in 1..Len(ContainerOf(h)) :
        /\ ContainerOf(h)[i].name = name
        /\ \A j \in 1..(i - 1) : ContainerOf(h)[j].name # name
        /\ ContainerOf(h)[i].uncompressed_size = size

\* C6: extractToBuffer on an open handle and a name either succeeds with a
\* buffer whose size is the entry's declared uncompressed size and the
\* number of bytes the codec read, or fails with null data and size 0; it
\* fails whenever the codec read another number of bytes than declared.
C6_ExtractNeverPartial ==
    (last.op = "extract" /\ last.h \in OpenHandles(Prog) /\ last.name # NULL) =>
        /\ \/ /\ last.ok = 1
              /\ last.data = "alloc"
              /\ DeclaresSize(last.h, last.name[1], last.size)
              /\ last.bytes_read = last.size
           \/ /\ last.ok = 0
              /\ last.data = "null"
              /\ last.size = 0
        /\ last.bytes_read # last.declared => last.ok = 0

\* The codec read fewer bytes than the entry declares.
C6_Witness ==
    /\ last.op = "extract"
    /\ last.h \in OpenHandles(Prog)
    /\ last.name # NULL
    /\ last.bytes_read >= 0
    /\ last.bytes_read < last.declared
    /\ last.ok = 0

\* C7: extractToBuffer on an open handle with a name the container does not
\* hold fails with null data and size 0, and leaves the handle, its catalog,
\* the registry and the codec sessions unchanged.
C7_ExtractAbsentName ==
    [][(/\ last'.op = "extract"
        /\ last'.h \in OpenHandles(Prog)
        /\ last'.name # NULL
        /\ ~InContainer(last'.h, last'.name[1]))
       => /\ last'.ok = 0
          /\ last'.data = "null"
          /\ last'.size = 0
          /\ UNCHANGED <<heap, g_open_archives, sessions>>]_vars

\* "n" was asked of an open handle on "B.ZIP", which holds no such entry,
\* while another handle was open.
C7_Witness ==
    /\ last.op = "extract"
    /\ last.h \in OpenHandles(Prog)
    /\ heap[last.h].archive_path = B_ZIP
    /\ last.name = Ptr(N_NONE)
    /\ Len(g_open_archives) = 2

\* The name ends in ".zip", compared after an ASCII fold.
EndsInDotZip(p) ==
    /\ Len(p) >= 4
    /\ \A i \in 1..4 : ToLower(p[Len(p) - 4 + i]) = DotZip[i]

NotAContainerName(path) == path = NULL \/ ~EndsInDotZip(path[1])

\* C10: open on a path that does not end in ".zip" (case-insensitively),
\* a null path, a path without '.' and an empty path among them, returns
\* no handle, does not ask the codec to open it, and changes neither the
\* registry nor any handle nor any codec session.
C10_OpenRefusesNonContainer ==
    [][(last'.op = "open" /\ NotAContainerName(last'.path))
       => /\ last'.ret = 0
          /\ ~last'.asked
          /\ UNCHANGED <<heap, g_open_archives, sessions, issued>>]_vars

\* "r.txt", a well-formed container in storage, was refused while a handle
\* was open.
C10_Witness ==
    /\ last.op = "open"
    /\ last.path = Ptr(R_TXT)
    /\ last.ret = 0
    /\ g_open_archives # << >>

(***************************************************************************)
(* Extract-to-scratch: entries of the same base name, from one handle or   *)
(* two, until the counter reaches MaxCounter.                              *)
(***************************************************************************)
NextScratch ==
    \/ OpenArchive({Ptr(A_ZIP), Ptr(B_ZIP)}, MaxLive)
    \/ ExtractFileToTemp({Ptr(N_DGCRT), Ptr(N_GCRT), Ptr(N_NONE)}, BufferSizes)

SpecScratch == Init /\ [][NextScratch]_vars

\* C8: the counter never decreases, and every extractToScratch that succeeds
\* has advanced it and produced a path that no earlier call produced and
\* that names no file created earlier in the run.
C8_ScratchPathsDistinct ==
    [][/\ temp_counter' >= temp_counter
       /\ Len(produced') > Len(produced) =>
              /\ temp_counter' > temp_counter
              /\ produced'[Len(produced')] \notin scratch
              /\ \A i \in 1..Len(produced) :
                     produced[i] # produced'[Len(produced')]]_vars

\* Two calls succeeded on entries of the same base name, "g.crt".
C8_Witness ==
    /\ last.op = "scratch"
    /\ last.ok = 1
    /\ produced = <<TempPath(1, N_GCRT), TempPath(2, N_GCRT)>>

(***************************************************************************)
(* The ROM locator over every container of up to MaxEntries entries drawn  *)
(* from EntryNames, each opened and searched with each wanted list.        *)
(***************************************************************************)
\* "x.d/": a directory whose name has an extension
N_XDDIR == <<120, 46, 100, 47>>

\* d/  d/g.crt  x.D64  r.txt  n  x.d/
EntryNames == {N_DIR, N_DGCRT, N_XD64, R_TXT, N_NONE, N_XDDIR}

RECURSIVE SeqsUpTo(_, _)
SeqsUpTo(S, n) ==
    IF n = 0 THEN {<< >>}
    ELSE SeqsUpTo(S, n - 1)
             \cup {Append(s, x) : s \in {q \in SeqsUpTo(S, n - 1) : Len(q) = n - 1},
                                  x \in S}

Containers ==
    {[i \in 1..Len(ns) |-> File(ns[i], 1, TRUE)] : ns \in SeqsUpTo(EntryNames, MaxEntries)}

\* The wanted lists of ExtLists, and {".d/"}, which only a directory name
\* can match.
FindLists == ExtLists \cup {Ptr(<< <<46, 100, 47>> >>)}

InitCatalog ==
    /\ disk \in {[path \in {A_ZIP} |-> files] : files \in Containers}
    /\ heap = [a \in Addr |-> Freed]
    /\ g_open_archives = << >>
    /\ sessions = [s \in Addr |-> NULL]
    /\ temp_counter = 0
    /\ scratch = {}
    /\ produced = << >>
    /\ issued = {}
    /\ last = [op |-> "init"]
    /\ calls = [t \in Threads |-> Idle]

NextFind ==
    \/ OpenArchive({Ptr(A_ZIP)}, MaxLive)
    \/ FindRom(FindLists)

SpecFind == InitCatalog /\ [][NextFind]_vars

Fold(s) == [i \in 1..Len(s) |-> ToLower(s[i])]

\* The wanted extensions: the supplied list, the default one when none is.
Wanted(exts) ==
    IF exts = NULL THEN {supported_exts[k] : k \in 1..Len(supported_exts)}
    ELSE {exts[1][k] : k \in 1..Len(exts[1])}

\* The extension of a name: its suffix from its last '.'.
HasExtensionIn(name, W) ==
    \E k \in 1..Len(name) :
        /\ name[k] = 46
        /\ \A j \in (k + 1)..Len(name) : name[j] # 46
        /\ \E w \in W : Fold(SubSeq(name, k, Len(name))) = Fold(w)

Qualifies(entry, exts) ==
    ~entry.is_directory /\ HasExtensionIn(entry.filename, Wanted(exts))

\* C9: findMedia on an open handle returns the name of the first catalog
\* entry that is no directory and whose extension is, after an ASCII fold,
\* one of the wanted extensions (of the default ones when no list is
\* supplied), wherever that extension stands in the list; it fails iff the
\* catalog holds no such entry.
C9_FindMediaFirstInCatalog ==
    (last.op = "find" /\ last.h \in OpenHandles(Prog)) =>
        IF \E i \in 1..Len(heap[last.h].entries) :
               Qualifies(heap[last.h].entries[i], last.exts)
        THEN /\ last.ok
             /\ \E i \in 1..Len(heap[last.h].entries) :
                    /\ Qualifies(heap[last.h].entries[i], last.exts)
                    /\ \A j \in 1..(i - 1) :
                           ~Qualifies(heap[last.h].entries[j], last.exts)
                    /\ last.rom_filename = heap[last.h].entries[i].filename
        ELSE ~last.ok

\* With the list {".crt", ".d64"}, "x.D64" won over a later "d/g.crt",
\* whose extension stands first in the list.
C9_Witness ==
    /\ last.op = "find"
    /\ last.h \in OpenHandles(Prog)
    /\ last.exts = Ptr(<< <<46, 99, 114, 116>>, <<46, 100, 54, 52>> >>)
    /\ last.ok
    /\ last.rom_filename = N_XD64
    /\ \E i \in 1..Len(heap[last.h].entries) :
           heap[last.h].entries[i].filename = N_DGCRT

(***************************************************************************)
(* Extract-to-scratch and find-and-extract with a caller's buffer that     *)
(* holds the composed path or is one character short.                      *)
(***************************************************************************)
SessionNames == {Ptr(N_GCRT), Ptr(N_NONE)}

NextCapacity ==
    \/ OpenArchive({Ptr(A_ZIP)}, MaxLive)
    \/ ExtractFileToTemp(SessionNames, BufferSizes)
    \/ ExtractRomToTemp({Ptr(A_ZIP), Ptr(E_ZIP)}, {NULL}, BufferSizes)

SpecCapacity == Init /\ [][NextCapacity]_vars

\* The scratch write itself succeeded: the buffer was extracted and all of
\* it written.
WroteAll(call) == call.extracted /\ call.written = call.size

\* C11: extractToScratch returns success only when the composed path and
\* its terminator fit in bufferCapacity; when the path does not fit it
\* fails, and on failure nothing is written into the caller's buffer.  The
\* find-and-extract wrapper obeys the same rule.
C11_PathMustFitBuffer ==
    /\ last.op = "scratch" =>
           /\ last.ok = 1 => /\ Len(last.temp_path) + 1 <= last.cap
                             /\ last.out = Ptr(last.temp_path)
           /\ (WroteAll(last) /\ Len(last.temp_path) + 1 > last.cap)
                  => last.ok = 0
           /\ last.ok = 0 => last.out = NULL
    /\ last.op = "rom" =>
           /\ last.ok = 1 => (last.out # NULL /\ Len(last.out[1]) + 1 <= last.cap)
           /\ last.ok = 0 => last.out = NULL

\* The file was written in full, but its path of 34 characters needs one
\* character more than the caller's buffer has.
C11_Witness ==
    /\ last.op = "scratch"
    /\ WroteAll(last)
    /\ Len(last.temp_path) = last.cap
    /\ last.ok = 0
    /\ last.out = NULL

(***************************************************************************)
(* The entry catalog over every container of up to MaxEntries entries,     *)
(* each with readable or unreadable metadata, named "", "d/" or "x.D64".   *)
(***************************************************************************)
ListedNames == {<< >>, N_DIR, N_XD64}

ListedContainers ==
    {[i \in 1..Len(fs) |-> fs[i]] :
        fs \in SeqsUpTo({File(n, 1, m) : n \in ListedNames, m \in BOOLEAN},
                        MaxEntries)}

InitListing ==
    /\ disk \in {[path \in {A_ZIP} |-> files] : files \in ListedContainers}
    /\ heap = [a \in Addr |-> Freed]
    /\ g_open_archives = << >>
    /\ sessions = [s \in Addr |-> NULL]
    /\ temp_counter = 0
    /\ scratch = {}
    /\ produced = << >>
    /\ issued = {}
    /\ last = [op |-> "init"]
    /\ calls = [t \in Threads |-> Idle]

NextListing ==
    \/ OpenArchive({Ptr(A_ZIP)}, MaxLive)
    \/ FileExists({Ptr(N_XD64)})

SpecListing == InitListing /\ [][NextListing]_vars

Readable(f) == f.info_ok

EndsWithSlash(name) == Len(name) > 0 /\ name[Len(name)] = 47

NonDirCount(names) == Cardinality({i \in 1..Len(names) : ~EndsWithSlash(names[i])})

\* C12: the catalog of an open handle is the container's entries with
\* readable metadata, in the container's order, names and sizes: an
\* unreadable entry is skipped and the listing goes on.  When every entry
\* is readable and named, the catalog has as many non-directory entries as
\* the container.
C12_CatalogIsReadableSubsequence ==
    \A h \in OpenHandles(Prog) :
        /\ [i \in 1..Len(heap[h].entries) |->
               <<heap[h].entries[i].filename, heap[h].entries[i].uncompressed_size>>]
             = [i \in 1..Len(SelectSeq(ContainerOf(h), Readable)) |->
                   <<SelectSeq(ContainerOf(h), Readable)[i].name,
                     SelectSeq(ContainerOf(h), Readable)[i].uncompressed_size>>]
        /\ (\A i \in 1..Len(ContainerOf(h)) :
                ContainerOf(h)[i].info_ok /\ ContainerOf(h)[i].name # << >>)
           => Cardinality({i \in 1..Len(heap[h].entries) :
                              ~heap[h].entries[i].is_directory})
                = NonDirCount([i \in 1..Len(ContainerOf(h)) |-> ContainerOf(h)[i].name])

\* A handle is open on a container whose second entry is unreadable, between
\* two readable ones: its catalog holds the first and the third.
C12_Witness ==
    \E h \in OpenHandles(Prog) :
        /\ Len(ContainerOf(h)) = 3
        /\ ContainerOf(h)[1].info_ok
        /\ ~ContainerOf(h)[2].info_ok
        /\ ContainerOf(h)[3].info_ok
        /\ Len(heap[h].entries) = 2
        /\ heap[h].entries[2].filename = ContainerOf(h)[3].name

\* C18: the directory flag of every catalog entry says whether the entry's
\* name ends with '/', for every name, the empty one included.
C18_DirectoryFlagFromName ==
    \A h \in OpenHandles(Prog) :
        \A i \in 1..Len(heap[h].entries) :
            heap[h].entries[i].is_directory
                <=> EndsWithSlash(heap[h].entries[i].filename)

(***************************************************************************)
(* A client session: lookups and extractions on open handles of two        *)
(* containers.                                                             *)
(***************************************************************************)
NextSession ==
    \/ OpenArchive({Ptr(A_ZIP), Ptr(B_ZIP)}, MaxLive)
    \/ FileExists({Ptr(N_GCRT)})
    \/ FindRom({NULL})
    \/ ExtractFile({Ptr(N_GCRT)})
    \/ ExtractFileToTemp(SessionNames, {35})

SpecSession == Init /\ [][NextSession]_vars

\* C13: no exists, findMedia, extractToBuffer or extractToScratch call, on
\* whatever handle and however it ends, changes the catalog of a handle that
\* is open: the handle stays open with the entries open gave it.
C13_CatalogNeverRefreshed ==
    [][last'.op \in {"exists", "find", "extract", "scratch"} =>
          \A h \in OpenHandles(Prog) :
              /\ heap'[h].alloc
              /\ heap'[h].is_open
              /\ heap'[h].entries = heap[h].entries]_vars

\* An extractToScratch succeeded on one of two open handles.
C13_Witness ==
    /\ last.op = "scratch"
    /\ last.ok = 1
    /\ last.h \in OpenHandles(Prog)
    /\ Cardinality(OpenHandles(Prog)) = 2
    /\ Len(heap[last.h].entries) = 4

(***************************************************************************)
(* The scratch counter through the calls of the interface, with up to      *)
(* MaxOpen handles alive and others released.                              *)
(***************************************************************************)
NextCounter ==
    \/ OpenArchive({Ptr(A_ZIP)}, MaxOpen)
    \/ CloseArchive
    \/ CleanupTempFiles
    \/ FileExists({Ptr(N_GCRT)})
    \/ FindRom({NULL})
    \/ ExtractFileToTemp(SessionNames, BufferSizes)

SpecCounter == Init /\ [][NextCounter]_vars

\* C16: an extractToScratch call advances the counter by one when its
\* buffer extraction succeeded, whatever happens afterwards, and leaves it
\* alone when the extraction failed; open, close, exists, findMedia and
\* closeAll leave it alone.
C16_CounterAdvancesPerExtraction ==
    [][/\ last'.op = "scratch" =>
              temp_counter' = temp_counter + (IF last'.extracted THEN 1 ELSE 0)
       /\ last'.op \in {"open", "close", "exists", "find", "closeAll"}
              => temp_counter' = temp_counter]_vars

\* The destination file could not be opened: the call failed after it had
\* taken a counter value.
C16_Witness ==
    /\ last.op = "scratch"
    /\ last.extracted
    /\ last.written = -1
    /\ last.ok = 0
    /\ temp_counter = 1

\* C14: extractToScratch succeeds only if the extraction succeeded and as
\* many bytes were written as extracted; a failed extraction, a destination
\* that cannot be opened and a short write each make it fail.  The writer
\* releases the extracted buffer once whenever the extraction handed it
\* one, and releases nothing when the extraction failed.
C14_ScratchAllOrNothing ==
    last.op = "scratch" =>
        /\ last.ok = 1 => WroteAll(last)
        /\ ~last.extracted => (last.ok = 0 /\ last.released = 0)
        /\ last.extracted => last.released = 1
        /\ (last.extracted /\ last.written # last.size) => last.ok = 0

\* A short write: fewer bytes reached the file than were extracted.
C14_Witness ==
    /\ last.op = "scratch"
    /\ last.extracted
    /\ last.written >= 0
    /\ last.written < last.size
    /\ last.ok = 0
    /\ last.released = 1

\* C17: when findMedia succeeds on an open handle, exists on that handle
\* and the returned name is true: the name is that of a catalog entry that
\* is no directory.
C17_FoundMediaExists ==
    (last.op = "find" /\ last.h \in OpenHandles(Prog) /\ last.ok) =>
        /\ zip_file_exists(Prog, last.h, Ptr(last.rom_filename),
                           Garbage(FALSE, FALSE, 0)).ok = 1
        /\ \E i \in 1..Len(heap[last.h].entries) :
               /\ heap[last.h].entries[i].filename = last.rom_filename
               /\ ~EndsWithSlash(last.rom_filename)

\* The name found stands twice in a catalog that also holds a directory.
C17_Witness ==
    /\ last.op = "find"
    /\ last.h \in OpenHandles(Prog)
    /\ last.ok
    /\ \E i, j, k \in 1..Len(heap[last.h].entries) :
           /\ i < j
           /\ heap[last.h].entries[i].filename = last.rom_filename
           /\ heap[last.h].entries[j].filename = last.rom_filename
           /\ heap[last.h].entries[k].is_directory

(***************************************************************************)
(* Extract-to-scratch called from several threads with no serialization.   *)
(* zip_extract_file_to_temp_internal takes no lock, so its accesses to the *)
(* static temp_counter are steps of their own: temp_counter++ is a load    *)
(* into a register and a store of the register plus one, and the path is   *)
(* composed from a later read of temp_counter.                             *)
(***************************************************************************)
InFlight == Cardinality({t \in Threads : calls[t].pc # "idle"})

\* The counter value the path is composed from: counter is what
\* temp_counter holds when std::to_string reads it, own is what this call's
\* increment stored.
RaceCounter_OwnValue(counter, own) == own

RaceCounter(counter, own) == counter

\* The call up to temp_counter++: the buffer is extracted.
RaceExtract ==
    \E t \in Threads, archive \in OpenHandles(Prog) :
        \E c \in CodecAnswers :
            /\ calls[t].pc = "idle"
            /\ temp_counter + InFlight < MaxCounter
            /\ \E x \in {zip_extract_file_internal(Prog, archive, Ptr(N_GCRT),
                             Garbage(FALSE, FALSE, 0) @@ c)} :
                   /\ calls' = IF x.ok
                               THEN [calls EXCEPT ![t] =
                                        [pc |-> "extracted", filename |-> N_GCRT,
                                         size |-> x.size, reg |-> 0,
                                         temp_path |-> << >>]]
                               ELSE calls
                   /\ last' = [op |-> "race", t |-> t, step |-> "extract",
                               ok |-> x.ok]
                   /\ UNCHANGED <<disk, heap, g_open_archives, sessions,
                                  temp_counter, scratch, produced, issued>>

\* temp_counter++, the load.
RaceLoad ==
    \E t \in Threads :
        /\ calls[t].pc = "extracted"
        /\ calls' = [calls EXCEPT ![t].pc = "loaded", ![t].reg = temp_counter]
        /\ last' = [op |-> "race", t |-> t, step |-> "load", ok |-> TRUE]
        /\ UNCHANGED <<disk, heap, g_open_archives, sessions, temp_counter,
                       scratch, produced, issued>>

\* temp_counter++, the store.
RaceStore ==
    \E t \in Threads :
        /\ calls[t].pc = "loaded"
        /\ temp_counter' = calls[t].reg + 1
        /\ calls' = [calls EXCEPT ![t].pc = "stored", ![t].reg = calls[t].reg + 1]
        /\ last' = [op |-> "race", t |-> t, step |-> "store", ok |-> TRUE]
        /\ UNCHANGED <<disk, heap, g_open_archives, sessions, scratch,
                       produced, issued>>

\* base_filename and temp_path, composed from temp_counter as it is now.
RaceCompose ==
    \E t \in Threads :
        /\ calls[t].pc = "stored"
        /\ calls' = [calls EXCEPT
                        ![t].pc = "composed",
                        ![t].temp_path =
                            TempPath(RaceCounter(temp_counter, calls[t].reg),
                                     BaseFilename(calls[t].filename))]
        /\ last' = [op |-> "race", t |-> t, step |-> "compose", ok |-> TRUE]
        /\ UNCHANGED <<disk, heap, g_open_archives, sessions, temp_counter,
                       scratch, produced, issued>>

\* sceIoOpen with create and truncate, sceIoWrite, sceIoClose, delete[].
RaceWrite ==
    \E t \in Threads, fd_ok \in BOOLEAN :
        /\ calls[t].pc = "composed"
        /\ calls' = [calls EXCEPT ![t] = Idle]
        /\ scratch' = IF fd_ok THEN scratch \cup {calls[t].temp_path} ELSE scratch
        /\ produced' = IF fd_ok THEN Append(produced, calls[t].temp_path)
                       ELSE produced
        /\ last' = [op |-> "race", t |-> t, step |-> "write", ok |-> fd_ok,
                    overwrote |-> fd_ok /\ calls[t].temp_path \in scratch]
        /\ UNCHANGED <<disk, heap, g_open_archives, sessions, temp_counter,
                       issued>>

NextRace ==
    \/ OpenArchive({Ptr(A_ZIP)}, MaxOpen)
    \/ RaceExtract
    \/ RaceLoad
    \/ RaceStore
    \/ RaceCompose
    \/ RaceWrite

SpecRace == Init /\ [][NextRace]_vars

\* C15: nothing serializes the calls: a call composes its path from the
\* value the shared counter holds when it reads it, not from the value its
\* own increment stored, and the store of an increment writes what the call
\* loaded plus one whatever the counter has become since; so two interleaved
\* calls for the same entry can compose the same path.
C15_CounterIsReadUnsynchronized ==
    [][\A t \in Threads :
          /\ (calls[t].pc = "stored" /\ calls'[t].pc = "composed")
                 => calls'[t].temp_path
                      = TempPath(temp_counter, BaseFilename(calls[t].filename))
          /\ (calls[t].pc = "loaded" /\ calls'[t].pc = "stored")
                 => temp_counter' = calls[t].reg + 1]_vars

\* Two calls for "g.crt" have each incremented the counter and then both
\* composed the path of counter value 2.
C15_Witness ==
    /\ temp_counter = 2
    /\ \E t, u \in Threads :
           /\ t # u
           /\ calls[t].pc = "composed"
           /\ calls[u].pc = "composed"
           /\ calls[t].filename = calls[u].filename
           /\ calls[t].temp_path = calls[u].temp_path

=============================================================================
